---- MODULE Spec2Model ----
(***************************************************************************)
(* A model of the twilio-demo call bridge.                                 *)
(*                                                                         *)
(*  - src/utils/worker.py: BaseWorkerProcess.run and AsyncProcessManager   *)
(*    (submit, submit_many, poll_output/handle_item, close): PoolSpec,     *)
(*    and PoolLiveSpec with the worker processes scheduled fairly.         *)
(*  - src/main.py: handle_media_stream, voice_callback and the outbound    *)
(*    direction of SimpleWebSocket: SessionSpec; with the audio a bridge   *)
(*    discards: RelaySpec; with the return of the handlers: TeardownSpec.  *)
(*  - src/main.py: SimpleWebSocket.run, _receive_from_twilio and close:    *)
(*    BridgeSpec, BridgeLiveSpec.                                          *)
(*  - src/utils/worker.py with cancelled submit callers: PoolCancelSpec,   *)
(*    and PoolCancelLiveSpec with the resolver task scheduled fairly.      *)
(*  - src/utils/calls.py: the completed flag of CallSession: TerminateSpec.*)
(*  - src/transcription.py: broadcast_transcription: BroadcastSpec.        *)
(*  - src/utils/audio.py: MixingWorker.handle: MixSpec.                    *)
(***************************************************************************)
EXTENDS Naturals, Integers, Sequences, FiniteSets, TLC

VARIABLES
    \* ---- AsyncProcessManager (src/utils/worker.py) ----
    input_queue,    \* mp.Queue of items: a task, a list of tasks, or the sentinel None
    output_queue,   \* mp.Queue of (task_id, result, error) triples
    futures,        \* self.futures: the task ids that have a record in the dict
    fut,            \* the asyncio.Future created for each task id
    setLog,         \* the ids whose future had set_result/set_exception called, in order
    outstanding,    \* the ids whose future was pending when close() was called
    nextId,         \* the next uuid4 (fresh on every call)
    procs,          \* the worker processes: where each is in run()
    output_task,    \* the task running poll_output
    closePc,        \* where close() is
    callers,        \* the coroutines calling submit / submit_many
    \* ---- one call session (src/main.py) ----
    session_store,     \* the session ids in session_store
    source_websocket,  \* CallSession.source_websocket
    target_websocket,  \* CallSession.target_websocket
    connect,           \* CallSession.connect (asyncio.Event): is it set
    barrier,           \* CallSession.barrier (asyncio.Barrier(2))
    client_sid,        \* CallSession.client_sid
    operator_sid,      \* CallSession.operator_sid
    handlers,          \* the handle_media_stream coroutines: where each is
    bridges,           \* the SimpleWebSocket each handler has constructed
    startRead,         \* the websockets whose 'start' event has been read
    sent,              \* the 'media' messages sent to the legs' websockets
    crossings,         \* how often the barrier has been crossed
    late,              \* the handlers that attached after both legs had rendezvoused
    dropped,           \* the bridges that discarded translated audio for want of a sid
    \* ---- one bridge, SimpleWebSocket (src/main.py) ----
    runPc,             \* where run() is
    ws,                \* self.ws, the translation socket
    palabraTask,       \* the task running _receive_from_palabra
    running,           \* SimpleWebSocket._running
    buffer,            \* the bytearray of _receive_from_twilio
    received,          \* how many audio bytes the 'media' frames have carried so far
    frames,            \* how many 'media' frames have been read
    twilioPc,          \* the task running _receive_from_twilio: where it is
    converted,         \* the chunks passed to convert_mulaw_to_pcm, in order
    forwarded,         \* the messages the translation socket has taken, in order
    faults,            \* the calls that raised: "convert", "send", "set_task"
    \* ---- teardown of one session (src/utils/calls.py) ----
    completed,         \* CallSession.completed
    notified,          \* the disconnect notifications delivered, by leg, in order
    terminations,      \* the legs the call-control collaborator was told to end
    \* ---- the transcript broadcaster (src/transcription.py) ----
    transcription_websockets,  \* the shared set of observers
    broadcasts,        \* the calls of broadcast_transcription: where each is
    \* ---- MixingWorker.handle (src/utils/audio.py) ----
    chunk1,            \* the samples of payload['chunk1']
    vol,               \* the gain g of the two payloads
    mixedSingle,       \* mixed, for the payload without chunk2 and vol_a = g
    mixedPadded,       \* mixed, for chunk2 all zero and vol_a = vol_b = g
    mixPc              \* have the two payloads been handled

poolVars == <<input_queue, output_queue, futures, fut, setLog, outstanding, nextId,
              procs, output_task, closePc, callers>>

sessVars == <<session_store, source_websocket, target_websocket, connect, barrier,
              client_sid, operator_sid, handlers, bridges, startRead, sent,
              crossings, late>>

\* The variables of the parts of the program other than the pool and the
\* session's rendezvous.
bridgeVars == <<runPc, ws, palabraTask, running, buffer, received, frames, twilioPc,
                converted, forwarded, faults>>

teardownVars == <<completed, notified, terminations>>

broadcastVars == <<transcription_websockets, broadcasts>>

mixVars == <<chunk1, vol, mixedSingle, mixedPadded, mixPc>>

otherVars == <<dropped, bridgeVars, teardownVars, broadcastVars, mixVars>>

vars == <<poolVars, sessVars, otherVars>>

----------------------------------------------------------------------------
\* Bounds of the model.
NumProcs == 2
NumCallers == 2
MaxTasks == 2
MaxAttach == 4

Workers == 1..NumProcs
Callers == 1..NumCallers

\* Python values that travel through the queues and the futures.
None == [t |-> "None", v |-> <<>>]
Str(s) == [t |-> "str", v |-> <<s>>]
RuntimeError(error) == [t |-> "RuntimeError", v |-> error.v]
CancelledError == [t |-> "CancelledError", v |-> <<>>]

\* What a payload makes the worker's handle() do: return a value, raise an
\* exception with a message, or raise one whose str() is empty.
Kinds == {"ok", "raise", "raiseEmpty"}

\* Payload i of the call of caller c.
Payload(c, i, k) == [src |-> c, pos |-> i, kind |-> k]

\* The lists of payloads a caller may pass: every kind at every position.
DataOf(c, kinds) == [i \in 1..Len(kinds) |-> Payload(c, i, kinds[i])]

KindSeqs(n) == UNION {[1..m -> Kinds] : m \in 0..n}

----------------------------------------------------------------------------
\* BaseWorkerProcess.handle (abstract): the transform.  Its result is a value
\* computed from the payload, not the payload.
HandleRaises(payload) == payload.kind # "ok"

HandleResult(payload) == [t |-> "converted", v |-> <<payload.src, payload.pos>>]

\* str(exc) of the exception handle raised.
HandleMessage(payload) ==
    IF payload.kind = "raise" THEN Str("transform failed") ELSE Str("")

\* One iteration of the for loop in run(): the triple put on the output queue.
WorkerTriple(task) ==
    IF HandleRaises(task.payload)
    THEN [task_id |-> task.task_id, result |-> None,
          error |-> HandleMessage(task.payload)]
    ELSE [task_id |-> task.task_id, result |-> HandleResult(task.payload),
          error |-> None]

\* The sentinel close() puts on the input queue.
Sentinel == [kind |-> "None", tasks |-> <<>>]

\* batch = item if isinstance(item, list) else [item]
AsBatch(item) == item.tasks

\* Python truthiness of the error field (None and "" are falsy).
Truthy(error) == error # None /\ error # Str("")

\* asyncio.Future: pending until set_result / set_exception is called once.
PendingFuture == [state |-> "pending", value |-> None]
Done(f) == f.state # "pending"

\* Future.set_result / set_exception: on a future that is done they raise
\* InvalidStateError and leave it as it is.
SetResult(f, result) ==
    IF Done(f) THEN f ELSE [state |-> "result", value |-> result]

SetException(f, exc) ==
    IF Done(f) THEN f ELSE [state |-> "exception", value |-> exc]

----------------------------------------------------------------------------
\* Construction: the workers are started and wait on the input queue, the
\* resolver task is created, nothing is pending.
IdleCaller ==
    [pc |-> "idle", many |-> FALSE, data |-> <<>>, ids |-> <<>>,
     value |-> None, afterClose |-> FALSE]

PoolInit ==
    /\ input_queue = <<>>
    /\ output_queue = <<>>
    /\ futures = {}
    /\ fut = <<>>
    /\ setLog = <<>>
    /\ outstanding = {}
    /\ nextId = 1
    /\ procs = [w \in Workers |-> [pc |-> "get", batch |-> <<>>]]
    /\ output_task = "running"
    /\ closePc = "idle"
    /\ callers = [c \in Callers |-> IdleCaller]

\* The task ids created so far (fut is a sequence indexed by them).
Ids == 1..(nextId - 1)

\* callers[c] is the c-th call made to the pool.
IsNextCall(c) ==
    /\ callers[c].pc = "idle"
    /\ \A d \in Callers : d < c => callers[d].pc # "idle"

\* ---- AsyncProcessManager.submit ----
\* task_id = uuid4(); futures[task_id] = fut; input_queue.put((task_id, data));
\* then the caller waits in "await fut".
Submit(c) ==
    /\ IsNextCall(c)
    /\ nextId <= MaxTasks
    /\ \E k \in Kinds :
         LET payload == Payload(c, 1, k)
             task == [task_id |-> nextId, payload |-> payload]
         IN /\ fut' = Append(fut, PendingFuture)
            /\ futures' = futures \cup {nextId}
            /\ input_queue' = Append(input_queue, [kind |-> "task", tasks |-> <<task>>])
            /\ callers' = [callers EXCEPT ![c] =
                  [pc |-> "awaiting", many |-> FALSE, data |-> <<payload>>,
                   ids |-> <<nextId>>, value |-> None,
                   afterClose |-> (closePc = "done")]]
            /\ nextId' = nextId + 1
    /\ UNCHANGED <<output_queue, setLog, outstanding, procs, output_task, closePc>>
    /\ UNCHANGED <<sessVars, otherVars>>

\* ---- AsyncProcessManager.submit_many ----
Min(a, b) == IF a < b THEN a ELSE b

\* for idx in range(0, len(data), batch_size): data[idx : idx + batch_size]
Batches(tasks, batch_size) ==
    [j \in 1..((Len(tasks) + batch_size - 1) \div batch_size) |->
        SubSeq(tasks, (j - 1) * batch_size + 1, Min(j * batch_size, Len(tasks)))]

\* The (task_id, payload) pairs of one call, in the order of data: each payload
\* gets a fresh id, and pending_futures lists the futures in the same order.
QueuedTasks(data, firstId) ==
    [i \in 1..Len(data) |-> [task_id |-> firstId + i - 1, payload |-> data[i]]]

\* "return await fut" in submit: the caller returns the future's result or
\* raises its exception.
AwaitFuture(caller, f) ==
    IF ~Done(f) THEN caller
    ELSE [caller EXCEPT !.pc = IF f.state = "result" THEN "returned" ELSE "raised",
                        !.value = f.value]

\* A gather that hands the results back in the order of completion.
GatherAsCompleted(caller, fs, f) ==
    IF f.state = "exception"
    THEN [caller EXCEPT !.pc = "raised", !.value = f.value]
    ELSE IF \A i \in 1..Len(fs) : Done(fs[i])
         THEN LET Mine(id) == \E i \in 1..Len(caller.ids) : caller.ids[i] = id
                  order == SelectSeq(setLog', Mine)
                  Pos(id) == CHOOSE i \in 1..Len(caller.ids) : caller.ids[i] = id
              IN [caller EXCEPT !.pc = "returned",
                                !.value = [n \in 1..Len(order) |-> fs[Pos(order[n])].value]]
         ELSE caller

\* "return await asyncio.gather(*pending_futures)" in submit_many, with
\* return_exceptions left False: the exception of the first child to fail is
\* raised in the caller at once; otherwise, when every child is done, the
\* results are returned in the order of the arguments.  f is the child that
\* has just been resolved, fs the children in argument order.
Gather(caller, fs, f) ==
    IF f.state = "exception"
    THEN [caller EXCEPT !.pc = "raised", !.value = f.value]
    ELSE IF \A i \in 1..Len(fs) : Done(fs[i])
         THEN [caller EXCEPT !.pc = "returned",
                             !.value = [i \in 1..Len(fs) |-> fs[i].value]]
         ELSE caller

\* The coroutine awaiting future id, after the future has been resolved: the
\* outcome of its call is decided by the order in which its futures resolve.
Wake(caller, futs, id) ==
    IF caller.pc # "awaiting" \/ \A i \in 1..Len(caller.ids) : caller.ids[i] # id
    THEN caller
    ELSE IF caller.many
         THEN Gather(caller, [i \in 1..Len(caller.ids) |-> futs[caller.ids[i]]], futs[id])
         ELSE AwaitFuture(caller, futs[id])

\* The futures of the table in the order of the dict, which is the order of
\* insertion: ids are handed out in increasing order.
RECURSIVE Sorted(_)
Sorted(ids) ==
    IF ids = {} THEN <<>>
    ELSE LET id == CHOOSE x \in ids : \A y \in ids : x <= y
         IN <<id>> \o Sorted(ids \ {id})

RECURSIVE WakeAll(_, _, _)
WakeAll(cs, futs, ids) ==
    IF ids = {} THEN cs
    ELSE LET id == CHOOSE x \in ids : \A y \in ids : x <= y
         IN WakeAll([c \in DOMAIN cs |-> Wake(cs[c], futs, id)], futs, ids \ {id})

SubmitMany(c) ==
    /\ IsNextCall(c)
    /\ \E kinds \in KindSeqs(MaxTasks - nextId + 1) :
       \E batch_size \in 1..(IF Len(kinds) = 0 THEN 1 ELSE Len(kinds)) :
         LET data == DataOf(c, kinds)
             tasks == QueuedTasks(data, nextId)
             items == Batches(tasks, batch_size)
         IN /\ fut' = fut \o [i \in 1..Len(data) |-> PendingFuture]
            /\ futures' = futures \cup {tasks[i].task_id : i \in 1..Len(tasks)}
            /\ input_queue' = input_queue \o
                  [j \in 1..Len(items) |-> [kind |-> "list", tasks |-> items[j]]]
            /\ callers' = [callers EXCEPT ![c] =
                  [pc |-> IF Len(data) = 0 THEN "returned" ELSE "awaiting",
                   many |-> TRUE, data |-> data,
                   ids |-> [i \in 1..Len(data) |-> nextId + i - 1],
                   value |-> IF Len(data) = 0 THEN <<>> ELSE None,
                   afterClose |-> (closePc = "done")]]
            /\ nextId' = nextId + Len(data)
    /\ UNCHANGED <<output_queue, setLog, outstanding, procs, output_task, closePc>>
    /\ UNCHANGED <<sessVars, otherVars>>

\* ---- BaseWorkerProcess.run ----
\* item = self.input_queue.get(): the sentinel ends the process, anything else
\* becomes the batch of the for loop.
WorkerGet(w) ==
    /\ procs[w].pc = "get"
    /\ input_queue # <<>>
    /\ LET item == Head(input_queue)
       IN procs' = [procs EXCEPT ![w] =
             IF item.kind = "None"
             THEN [pc |-> "exited", batch |-> <<>>]
             ELSE [pc |-> "handle", batch |-> AsBatch(item)]]
    /\ input_queue' = Tail(input_queue)
    /\ UNCHANGED <<output_queue, futures, fut, setLog, outstanding, nextId,
                   output_task, closePc, callers>>
    /\ UNCHANGED <<sessVars, otherVars>>

\* One iteration of "for task_id, payload in batch".
WorkerHandle(w) ==
    /\ procs[w].pc = "handle"
    /\ output_queue' = Append(output_queue, WorkerTriple(Head(procs[w].batch)))
    /\ procs' = [procs EXCEPT ![w] =
          IF Len(procs[w].batch) = 1
          THEN [pc |-> "get", batch |-> <<>>]
          ELSE [pc |-> "handle", batch |-> Tail(procs[w].batch)]]
    /\ UNCHANGED <<input_queue, futures, fut, setLog, outstanding, nextId,
                   output_task, closePc, callers>>
    /\ UNCHANGED <<sessVars, otherVars>>

\* ---- AsyncProcessManager.handle_item ----
\* A resolver that takes the oldest pending record instead of the record of
\* the triple's id (results assumed to come back in submission order).
PopKeyOldest(item) ==
    IF futures = {} THEN item.task_id
    ELSE CHOOSE x \in futures : \A y \in futures : x <= y

\* fut = self.futures.pop(task_id, None): the record the triple resolves.
PopKey(item) == item.task_id

\* The future after handle_item has resolved it.
Resolve(f, item) ==
    IF Truthy(item.error)
    THEN SetException(f, RuntimeError(item.error))
    ELSE SetResult(f, item.result)

\* handle_item raises InvalidStateError when the record it has popped holds a
\* future that is done already (cancelled by its awaiter).
HandleItemRaises(id) == id \in futures /\ Done(fut[id])

\* A resolver without the "except Exception" around handle_item: the
\* exception ends the task.
PollAfterUnguarded(raised) == IF raised THEN "failed" ELSE "running"

\* except Exception: logger.warning(...), and the while loop goes round again.
PollAfter(raised) == "running"

\* poll_output takes one triple off the output queue and hands it to
\* handle_item; it runs until close() cancels it.
PollOutput ==
    /\ output_task = "running"
    /\ output_queue # <<>>
    /\ LET item == Head(output_queue)
           id == PopKey(item)
       IN IF id \in futures
          THEN /\ futures' = futures \ {id}
               /\ fut' = [fut EXCEPT ![id] = Resolve(@, item)]
               /\ setLog' = Append(setLog, id)
               /\ callers' = [c \in Callers |-> Wake(callers[c], fut', id)]
          ELSE UNCHANGED <<futures, fut, setLog, callers>>
    /\ output_task' = PollAfter(HandleItemRaises(PopKey(Head(output_queue))))
    /\ output_queue' = Tail(output_queue)
    /\ UNCHANGED <<input_queue, outstanding, nextId, procs, closePc>>
    /\ UNCHANGED <<sessVars, otherVars>>

\* ---- AsyncProcessManager.close ----
\* A close() that puts a single sentinel, whatever the number of processes.
SentinelsOne == <<Sentinel>>

\* for _ in self.procs: self.input_queue.put(None)
Sentinels == [w \in Workers |-> Sentinel]

\* One sentinel per process, then output_task.cancel(); close() then waits in
\* "await self.output_task" and other coroutines run.
CloseStart ==
    /\ closePc = "idle"
    /\ input_queue' = input_queue \o Sentinels
    /\ output_task' = "cancelled"
    /\ closePc' = "awaiting"
    /\ outstanding' = {id \in Ids : ~Done(fut[id])}
    /\ UNCHANGED <<output_queue, futures, fut, setLog, nextId, procs, callers>>
    /\ UNCHANGED <<sessVars, otherVars>>

\* A close() that clears the table without failing what is in it.
CloseFutureForgotten(f) == f

\* What the loop over self.futures.values() does to one future.
CloseFuture(f) == IF ~Done(f) THEN SetException(f, CancelledError) ELSE f

\* The joins (each bounded by its timeout), then every future still in the
\* table is failed and the table is cleared.
CloseFinish ==
    /\ closePc = "awaiting"
    /\ fut' = [id \in DOMAIN fut |->
                 IF id \in futures THEN CloseFuture(fut[id]) ELSE fut[id]]
    /\ setLog' = setLog \o Sorted({id \in futures : ~Done(fut[id])})
    /\ callers' = WakeAll(callers, fut', {id \in futures : fut'[id] # fut[id]})
    /\ futures' = {}
    /\ closePc' = "done"
    /\ UNCHANGED <<input_queue, output_queue, outstanding, nextId, procs, output_task>>
    /\ UNCHANGED <<sessVars, otherVars>>

----------------------------------------------------------------------------
\* One call session of src/main.py and the websocket handlers attached to it.

\* handlers[h] is the h-th connection to /voice/{role}/{session_id}; its
\* websocket is named h.
Handlers == 1..MaxAttach

\* The role in the path.  Any other string takes the else branches, as
\* "operator" does.
Roles == {"client", "operator"}

Opposite(role) == IF role = "client" THEN "operator" ELSE "client"

\* None, for a websocket field and for a stream sid.
NoWs == 0
NoSid == [streamSid |-> NoWs]

\* The streamSid the provider gives the stream of websocket w in its 'start'
\* event.
StreamSid(w) == [streamSid |-> w]

\* asyncio.Barrier(2)
Parties == 2

NoBridge == [source_ws |-> NoWs, target_ws |-> NoWs]

\* CallSession.__init__ and the empty session_store.
SessionInit ==
    /\ session_store = {}
    /\ source_websocket = NoWs
    /\ target_websocket = NoWs
    /\ connect = FALSE
    /\ barrier = [state |-> "filling", count |-> 0]
    /\ client_sid = NoSid
    /\ operator_sid = NoSid
    /\ handlers = [h \in Handlers |-> [pc |-> "new", role |-> "client"]]
    /\ bridges = [h \in Handlers |-> NoBridge]
    /\ startRead = {}
    /\ sent = {}
    /\ crossings = 0
    /\ late = {}

\* The id of the session the model follows.
SessionId == "session"

\* ---- twiml_handler ----
\* session = CallSession(...); session_store[session.session_id] = session
TwimlHandler ==
    /\ session_store = {}
    /\ session_store' = {SessionId}
    /\ UNCHANGED <<source_websocket, target_websocket, connect, barrier, client_sid,
                   operator_sid, handlers, bridges, startRead, sent, crossings, late>>
    /\ UNCHANGED <<poolVars, otherVars>>

\* ---- voice_callback ----
\* call_status == "in-progress" and the session is found: connect.set()
VoiceCallback ==
    /\ SessionId \in session_store
    /\ ~connect
    /\ connect' = TRUE
    /\ UNCHANGED <<session_store, source_websocket, target_websocket, barrier,
                   client_sid, operator_sid, handlers, bridges, startRead, sent,
                   crossings, late>>
    /\ UNCHANGED <<poolVars, otherVars>>

\* ---- handle_media_stream ----
IsNextAttach(h) ==
    /\ handlers[h].pc = "new"
    /\ \A g \in Handlers : g < h => handlers[g].pc # "new"

\* From the lookup of the session to "await call_session.connect.wait()":
\* an unknown session ends the handler; otherwise the websocket is stored in
\* the field of its role, the operator is called (client) and the websocket
\* is accepted.
Attach(h, role) ==
    /\ IsNextAttach(h)
    /\ IF SessionId \notin session_store
       THEN /\ handlers' = [handlers EXCEPT ![h] = [pc |-> "returned", role |-> role]]
            /\ UNCHANGED <<source_websocket, target_websocket, late>>
       ELSE /\ IF role = "client"
               THEN /\ source_websocket' = h
                    /\ UNCHANGED target_websocket
               ELSE /\ target_websocket' = h
                    /\ UNCHANGED source_websocket
            /\ handlers' = [handlers EXCEPT ![h] = [pc |-> "connect_wait", role |-> role]]
            /\ late' = IF crossings > 0 /\ source_websocket # NoWs /\ target_websocket # NoWs
                       THEN late \cup {h} ELSE late
    /\ UNCHANGED <<session_store, connect, barrier, client_sid, operator_sid, bridges,
                   startRead, sent, crossings>>
    /\ UNCHANGED <<poolVars, otherVars>>

\* asyncio.Barrier.wait() up to its suspension: the caller takes index
\* _count; the last of the parties releases the barrier (state draining) and
\* goes on, the others wait.  On leaving, a party decrements _count and the
\* last one out sets the barrier filling again.
BarrierLeave(b) ==
    [state |-> IF b.count - 1 = 0 THEN "filling" ELSE b.state, count |-> b.count - 1]

BarrierEnter(b) ==
    IF b.count + 1 = Parties
    THEN BarrierLeave([state |-> "draining", count |-> b.count + 1])
    ELSE [state |-> "filling", count |-> b.count + 1]

\* "await call_session.connect.wait()" returns once connect is set, and
\* "await call_session.barrier.wait()" starts; a barrier that is draining
\* keeps the caller out until it is filling again.
Arrive(h) ==
    /\ handlers[h].pc = "connect_wait"
    /\ connect
    /\ barrier.state = "filling"
    /\ barrier' = BarrierEnter(barrier)
    /\ IF barrier.count + 1 = Parties
       THEN /\ handlers' = [handlers EXCEPT ![h].pc = "passed"]
            /\ crossings' = crossings + 1
       ELSE /\ handlers' = [handlers EXCEPT ![h].pc = "barrier_wait"]
            /\ UNCHANGED crossings
    /\ UNCHANGED <<session_store, source_websocket, target_websocket, connect,
                   client_sid, operator_sid, bridges, startRead, sent, late>>
    /\ UNCHANGED <<poolVars, otherVars>>

\* A party waiting in the barrier is woken by the release and leaves it.
Released(h) ==
    /\ handlers[h].pc = "barrier_wait"
    /\ barrier.state = "draining"
    /\ barrier' = BarrierLeave(barrier)
    /\ handlers' = [handlers EXCEPT ![h].pc = "passed"]
    /\ UNCHANGED <<session_store, source_websocket, target_websocket, connect,
                   client_sid, operator_sid, bridges, startRead, sent, crossings, late>>
    /\ UNCHANGED <<poolVars, otherVars>>

\* ---- SimpleWebSocket.__init__ ----
\* A bridge that takes the session's fields the wrong way round.
BridgeSocketsSwapped(role) ==
    IF role = "client"
    THEN [source_ws |-> target_websocket, target_ws |-> source_websocket]
    ELSE [source_ws |-> source_websocket, target_ws |-> target_websocket]

\* source_ws is the leg the bridge reads, target_ws the leg it writes.
BridgeSockets(role) ==
    IF role = "client"
    THEN [source_ws |-> source_websocket, target_ws |-> target_websocket]
    ELSE [source_ws |-> target_websocket, target_ws |-> source_websocket]

\* After create_session(): the two assertions, then the bridge is built and
\* run.
CreateBridge(h) ==
    /\ handlers[h].pc = "passed"
    /\ IF target_websocket = NoWs \/ source_websocket = NoWs
       THEN /\ handlers' = [handlers EXCEPT ![h].pc = "failed"]
            /\ UNCHANGED bridges
       ELSE /\ handlers' = [handlers EXCEPT ![h].pc = "running"]
            /\ bridges' = [bridges EXCEPT ![h] = BridgeSockets(handlers[h].role)]
    /\ UNCHANGED <<session_store, source_websocket, target_websocket, connect, barrier,
                   client_sid, operator_sid, startRead, sent, crossings, late>>
    /\ UNCHANGED <<poolVars, otherVars>>

\* ---- SimpleWebSocket._receive_from_twilio, event 'start' ----
\* The stream's sid is stored in the session field of the bridge's role.
ReceiveStart(h) ==
    /\ handlers[h].pc = "running"
    /\ bridges[h].source_ws \notin startRead
    /\ startRead' = startRead \cup {bridges[h].source_ws}
    /\ IF handlers[h].role = "client"
       THEN /\ client_sid' = StreamSid(bridges[h].source_ws)
            /\ UNCHANGED operator_sid
       ELSE /\ operator_sid' = StreamSid(bridges[h].source_ws)
            /\ UNCHANGED client_sid
    /\ UNCHANGED <<session_store, source_websocket, target_websocket, connect, barrier,
                   handlers, bridges, sent, crossings, late>>
    /\ UNCHANGED <<poolVars, otherVars>>

\* ---- SimpleWebSocket._receive_from_palabra, message 'output_audio_data' ----
\* A bridge that tags the audio with the sid of its own leg.
ForwardSidOwn(role) == IF role = "client" THEN client_sid ELSE operator_sid

\* stream_sid = operator_sid if self.role == 'client' else client_sid
ForwardSid(role) == IF role = "client" THEN operator_sid ELSE client_sid

\* The translated audio is sent on target_ws with stream_sid; while the sid
\* is None the assertion fails, which is caught, and nothing is sent.
ReceiveAudio(h) ==
    /\ handlers[h].pc = "running"
    /\ ForwardSid(handlers[h].role) # NoSid
    /\ sent' = sent \cup {[role |-> handlers[h].role, ws |-> bridges[h].target_ws,
                           streamSid |-> ForwardSid(handlers[h].role)]}
    /\ UNCHANGED <<session_store, source_websocket, target_websocket, connect, barrier,
                   client_sid, operator_sid, handlers, bridges, startRead, crossings,
                   late>>
    /\ UNCHANGED <<poolVars, otherVars>>

\* ---- the task that called submit is cancelled ----
\* "return await fut" is where the task waits: Task.cancel() cancels the
\* future it waits on and CancelledError is raised in submit.  The record
\* stays in self.futures.
CancelledFuture == [state |-> "cancelled", value |-> CancelledError]

CancelCaller(c) ==
    /\ callers[c].pc = "awaiting"
    /\ ~callers[c].many
    /\ ~Done(fut[callers[c].ids[1]])
    /\ fut' = [fut EXCEPT ![callers[c].ids[1]] = CancelledFuture]
    /\ callers' = [callers EXCEPT ![c].pc = "cancelled", ![c].value = CancelledError]
    /\ UNCHANGED <<input_queue, output_queue, futures, setLog, outstanding, nextId,
                   procs, output_task, closePc>>
    /\ UNCHANGED <<sessVars, otherVars>>

PoolCancelNext ==
    \/ \E c \in Callers : Submit(c)
    \/ \E c \in Callers : CancelCaller(c)
    \/ \E w \in Workers : WorkerGet(w)
    \/ \E w \in Workers : WorkerHandle(w)
    \/ PollOutput
    \/ CloseStart
    \/ CloseFinish

SessionNext ==
    \/ TwimlHandler
    \/ VoiceCallback
    \/ \E h \in Handlers, role \in Roles : Attach(h, role)
    \/ \E h \in Handlers : Arrive(h)
    \/ \E h \in Handlers : Released(h)
    \/ \E h \in Handlers : CreateBridge(h)
    \/ \E h \in Handlers : ReceiveStart(h)
    \/ \E h \in Handlers : ReceiveAudio(h)

PoolNext ==
    \/ \E c \in Callers : Submit(c)
    \/ \E c \in Callers : SubmitMany(c)
    \/ \E w \in Workers : WorkerGet(w)
    \/ \E w \in Workers : WorkerHandle(w)
    \/ PollOutput
    \/ CloseStart
    \/ CloseFinish

\* ---- SimpleWebSocket._receive_from_palabra, the sid is still None ----
\* "assert stream_sid is not None" raises AssertionError inside the try; the
\* handler "except Exception" prints it and the loop goes on to the next
\* message: the audio is neither kept nor sent, and the bridge keeps running.
DropAudio(h) ==
    /\ handlers[h].pc = "running"
    /\ ForwardSid(handlers[h].role) = NoSid
    /\ dropped' = dropped \cup {h}
    /\ UNCHANGED <<poolVars, sessVars, bridgeVars, teardownVars, broadcastVars, mixVars>>

\* ---- handle_media_stream, after "await ws.run()" ----
\* run() has returned (or raised) and the handler ends; session_store is not
\* touched on the way out.
HandlerReturns(h) ==
    /\ handlers[h].pc = "running"
    /\ handlers' = [handlers EXCEPT ![h].pc = "finished"]
    /\ UNCHANGED <<session_store, source_websocket, target_websocket, connect, barrier,
                   client_sid, operator_sid, bridges, startRead, sent, crossings, late>>
    /\ UNCHANGED <<poolVars, otherVars>>

RelayNext ==
    \/ SessionNext
    \/ \E h \in Handlers : DropAudio(h)

TeardownNext ==
    \/ SessionNext
    \/ \E h \in Handlers : HandlerReturns(h)

----------------------------------------------------------------------------
\* One bridge: SimpleWebSocket.run, its two directional tasks and close.

\* The bound on the 'media' frames of one stream.
MaxFrames == 4

\* buffer_size = int(8_000 * 0.320)
buffer_size == 2560

\* The payload sizes of the frames: parts of a chunk, a whole chunk, and more
\* than a chunk.
FrameSizes == {buffer_size \div 4, buffer_size \div 2, buffer_size,
               buffer_size + buffer_size \div 4}

\* A run of consecutive bytes of the leg's stream: the position of its first
\* byte in the stream and its length.  The bytearray always holds such a run.
Bytes(first, len) == [first |-> first, len |-> len]

\* buffer += audio_data
Extend(b, n) == Bytes(b.first, b.len + n)

\* buffer[:size] and buffer[size:]
Take(b, size) == Bytes(b.first, Min(size, b.len))
Drop(b, size) == Bytes(b.first + Min(size, b.len), b.len - Min(size, b.len))

\* A threshold that leaves a buffer of exactly one chunk waiting.
ChunkReadyStrict(b) == b.len > buffer_size

\* if len(buffer) >= buffer_size
ChunkReady(b) == b.len >= buffer_size

\* convert_mulaw_to_pcm: 8 kHz mu-law (one byte a sample) to 24 kHz s16le
\* (two bytes a sample, three samples for one).
ConvertMulawToPcm(chunk) == [enc |-> "s16le-24000", src |-> chunk, len |-> chunk.len * 3 * 2]

\* What the calls made for one chunk can do: the conversion returns or raises
\* (ffmpeg exits non-zero), the socket takes the message or raises.
Outcomes == {"ok", "convert", "send"}

\* A close() that cancels the tasks and leaves the translation socket open.
CloseBridgeKeepsSocket ==
    /\ running' = FALSE
    /\ palabraTask' = IF palabraTask = "running" THEN "cancelled" ELSE palabraTask
    /\ ws' = ws

\* ---- SimpleWebSocket.close, called while _running is True ----
\* _running is cleared, a directional task that is not done is cancelled and
\* awaited, and self.ws is closed.  (The statement after that reads
\* self.twilio_ws, which no code sets: close() ends by raising
\* AttributeError to its caller.)
CloseBridge ==
    /\ running' = FALSE
    /\ palabraTask' = IF palabraTask = "running" THEN "cancelled" ELSE palabraTask
    /\ ws' = "closed"

\* The try block around a chunk: convert, then self.send().  A conversion
\* that raises is printed and the chunk is gone.  A send that raises makes
\* send() call close(); this task is the one close() then cancels and
\* awaits, the CancelledError is caught inside close(), and the
\* AttributeError close() ends with is caught and printed here, so the loop
\* goes on to the next message.  A socket that is not open takes nothing.
ConvertAndSend(chunk, outcome) ==
    /\ outcome = "ok" => ws = "open"
    /\ converted' = Append(converted, chunk)
    /\ forwarded' = IF outcome = "ok"
                    THEN Append(forwarded, ConvertMulawToPcm(chunk))
                    ELSE forwarded
    /\ faults' = IF outcome = "ok" THEN faults ELSE faults \cup {outcome}
    /\ IF outcome = "send"
       THEN CloseBridge
       ELSE UNCHANGED <<running, palabraTask, ws>>

\* One 'media' message of n bytes read while the bridge is running: it is
\* appended to the buffer, and if the buffer has reached buffer_size one
\* chunk is cut off, converted and sent.
ReceiveMedia(n, outcome) ==
    /\ twilioPc = "reading"
    /\ running
    /\ frames < MaxFrames
    /\ frames' = frames + 1
    /\ received' = received + n
    /\ IF ChunkReady(Extend(buffer, n))
       THEN /\ buffer' = Drop(Extend(buffer, n), buffer_size)
            /\ ConvertAndSend(Take(Extend(buffer, n), buffer_size), outcome)
       ELSE /\ buffer' = Extend(buffer, n)
            /\ outcome = "ok"
            /\ UNCHANGED <<converted, forwarded, faults, running, palabraTask, ws>>
    /\ UNCHANGED <<twilioPc, runPc>>
    /\ UNCHANGED <<poolVars, sessVars, dropped, teardownVars, broadcastVars, mixVars>>

\* The finally block: "if buffer and self._running" the whole remainder is
\* converted and sent; then the coroutine ends.
Flush(outcome) ==
    /\ IF buffer.len > 0 /\ running
       THEN ConvertAndSend(Bytes(buffer.first, buffer.len), outcome)
       ELSE /\ outcome = "ok"
            /\ UNCHANGED <<converted, forwarded, faults, running, palabraTask, ws>>
    /\ twilioPc' = "ended"
    /\ UNCHANGED <<buffer, received, frames, runPc>>

\* The leg's stream ends: iter_text() raises WebSocketDisconnect or another
\* exception; both handlers print and fall through to the finally block.
StreamEnds(outcome) ==
    /\ twilioPc = "reading"
    /\ Flush(outcome)
    /\ UNCHANGED <<poolVars, sessVars, dropped, teardownVars, broadcastVars, mixVars>>

\* A message read after the bridge was closed: "if not self._running: break";
\* the message is not looked at and the finally block runs.
ReadAfterClose ==
    /\ twilioPc = "reading"
    /\ ~running
    /\ Flush("ok")
    /\ UNCHANGED <<poolVars, sessVars, dropped, teardownVars, broadcastVars, mixVars>>

\* ---- SimpleWebSocket._receive_from_palabra ----
\* The loop ends when recv() raises ConnectionClosed (the translation socket
\* is gone) or any other exception but a timeout; on a timeout it goes round
\* again.
PalabraEnds(closed) ==
    /\ palabraTask = "running"
    /\ palabraTask' = "ended"
    /\ ws' = IF closed THEN "lost" ELSE ws
    /\ UNCHANGED <<runPc, running, buffer, received, frames, twilioPc, converted,
                   forwarded, faults>>
    /\ UNCHANGED <<poolVars, sessVars, dropped, teardownVars, broadcastVars, mixVars>>

\* ---- SimpleWebSocket.run ----
\* connect, set_task, sleep, "_running = True", the two tasks are created and
\* run() waits in gather.  A connect that raises is printed and the finally
\* block calls close(), which returns at once as _running is False.  A
\* set_task message the socket refuses makes send() call close(), which
\* returns at once for the same reason and leaves the socket as it is; send()
\* returns and run() goes on.
RunStart(connects, accepted) ==
    /\ runPc = "new"
    /\ IF connects
       THEN /\ ws' = IF accepted THEN "open" ELSE "lost"
            /\ faults' = IF accepted THEN faults ELSE faults \cup {"set_task"}
            /\ running' = TRUE
            /\ palabraTask' = "running"
            /\ twilioPc' = "reading"
            /\ runPc' = "gather"
       ELSE /\ accepted
            /\ runPc' = "returned"
            /\ UNCHANGED <<ws, running, palabraTask, twilioPc, faults>>
    /\ UNCHANGED <<buffer, received, frames, converted, forwarded>>
    /\ UNCHANGED <<poolVars, sessVars, dropped, teardownVars, broadcastVars, mixVars>>

\* await asyncio.gather(palabra_task, twilio_task, return_exceptions=True):
\* done when both tasks are done.
GatherDone == palabraTask # "running" /\ twilioPc = "ended"

\* gather returns and the finally block calls close(): a no-op if the bridge
\* was closed already, else the close that ends by raising AttributeError out
\* of run().
GatherReturns ==
    /\ runPc = "gather"
    /\ GatherDone
    /\ IF running
       THEN /\ CloseBridge
            /\ runPc' = "raised"
       ELSE /\ runPc' = "returned"
            /\ UNCHANGED <<running, palabraTask, ws>>
    /\ UNCHANGED <<buffer, received, frames, twilioPc, converted, forwarded, faults>>
    /\ UNCHANGED <<poolVars, sessVars, dropped, teardownVars, broadcastVars, mixVars>>

\* SimpleWebSocket.__init__: no socket, no tasks, _running False.
BridgeInit ==
    /\ runPc = "new"
    /\ ws = "none"
    /\ palabraTask = "none"
    /\ running = FALSE
    /\ buffer = Bytes(1, 0)
    /\ received = 0
    /\ frames = 0
    /\ twilioPc = "none"
    /\ converted = <<>>
    /\ forwarded = <<>>
    /\ faults = {}

BridgeNext ==
    \/ \E connects, accepted \in BOOLEAN : RunStart(connects, accepted)
    \/ \E n \in FrameSizes, outcome \in Outcomes : ReceiveMedia(n, outcome)
    \/ \E outcome \in Outcomes : StreamEnds(outcome)
    \/ ReadAfterClose
    \/ \E closed \in BOOLEAN : PalabraEnds(closed)
    \/ GatherReturns

----------------------------------------------------------------------------
\* Teardown of a session on the disconnect of a leg.  src holds the flag
\* (CallSession.completed) and the legs' call sids; the handler that uses
\* them is described in the specification, sections 3 and 4.3.

\* The bound on the disconnect notifications of one session.
MaxNotifications == 6

\* A handler that ignores the flag.
AlreadyCompletedIgnored == FALSE

\* The session is Completed: a further disconnect signal is a no-op.
AlreadyCompleted == completed

\* A disconnect notification for the leg of a role: the first one sets the
\* completed flag and commands the opposite leg to terminate.
DisconnectNotification(role) ==
    /\ Len(notified) < MaxNotifications
    /\ notified' = Append(notified, role)
    /\ IF AlreadyCompleted
       THEN UNCHANGED <<completed, terminations>>
       ELSE /\ completed' = TRUE
            /\ terminations' = Append(terminations, Opposite(role))
    /\ UNCHANGED <<poolVars, sessVars, dropped, bridgeVars, broadcastVars, mixVars>>

\* self.completed = False
TerminateInit ==
    /\ completed = FALSE
    /\ notified = <<>>
    /\ terminations = <<>>

TerminateNext == \E role \in Roles : DisconnectNotification(role)

----------------------------------------------------------------------------
\* The transcript broadcaster: src/transcription.py.

\* The bounds on the web clients and on the broadcasts in progress.
NumObservers == 2
NumBroadcasts == 2

Observers == 1..NumObservers
Broadcasts == 1..NumBroadcasts

\* A call of broadcast_transcription at its for statement: the iterator's
\* remembered size, what it has yielded, the socket being sent to and
\* disconnected_websockets.
NewBroadcast ==
    [pc |-> "iterating", used |-> Cardinality(transcription_websockets),
     atStart |-> transcription_websockets, visited |-> {}, ws |-> 0,
     disconnected |-> {}, delivered |-> {}]

\* transcription_websockets: set[WebSocket] = set(); no broadcast has been
\* called.
BroadcastInit ==
    /\ transcription_websockets = {}
    /\ broadcasts = <<>>

\* A web client connects or goes away: its socket is added to the shared set
\* or discarded from it.
Register(o) ==
    /\ o \notin transcription_websockets
    /\ transcription_websockets' = transcription_websockets \cup {o}
    /\ UNCHANGED broadcasts
    /\ UNCHANGED <<poolVars, sessVars, dropped, bridgeVars, teardownVars, mixVars>>

Unregister(o) ==
    /\ o \in transcription_websockets
    /\ transcription_websockets' = transcription_websockets \ {o}
    /\ UNCHANGED broadcasts
    /\ UNCHANGED <<poolVars, sessVars, dropped, bridgeVars, teardownVars, mixVars>>

\* broadcast_transcription is called: the message is built,
\* disconnected_websockets is empty and the for statement makes an iterator
\* of the shared set itself, which remembers the size of the set.
BroadcastStart(b) ==
    /\ b = Len(broadcasts) + 1
    /\ broadcasts' = Append(broadcasts, NewBroadcast)
    /\ UNCHANGED transcription_websockets
    /\ UNCHANGED <<poolVars, sessVars, dropped, bridgeVars, teardownVars, mixVars>>

\* The for statement asks the iterator for the next socket.  The iterator
\* of a set whose size is no longer the one it remembers raises RuntimeError
\* ("Set changed size during iteration"); that is outside the try, so the
\* coroutine ends with it.  Otherwise it yields a socket it has not yielded
\* yet, and the coroutine waits in send_json; or it is exhausted, and
\* difference_update removes the sockets whose send failed.
BroadcastNextWs(b) ==
    /\ b \in DOMAIN broadcasts
    /\ broadcasts[b].pc = "iterating"
    /\ IF Cardinality(transcription_websockets) # broadcasts[b].used
       THEN /\ broadcasts' = [broadcasts EXCEPT ![b].pc = "raised"]
            /\ UNCHANGED transcription_websockets
       ELSE IF transcription_websockets \ broadcasts[b].visited # {}
       THEN /\ \E o \in transcription_websockets \ broadcasts[b].visited :
                  broadcasts' = [broadcasts EXCEPT ![b].pc = "sending", ![b].ws = o,
                                                   ![b].visited = @ \cup {o}]
            /\ UNCHANGED transcription_websockets
       ELSE /\ broadcasts' = [broadcasts EXCEPT ![b].pc = "done"]
            /\ transcription_websockets' =
                  transcription_websockets \ broadcasts[b].disconnected
    /\ UNCHANGED <<poolVars, sessVars, dropped, bridgeVars, teardownVars, mixVars>>

\* await ws.send_json(message) returns, or raises and the socket is added to
\* disconnected_websockets.
BroadcastSent(b, ok) ==
    /\ b \in DOMAIN broadcasts
    /\ broadcasts[b].pc = "sending"
    /\ broadcasts' = [broadcasts EXCEPT
          ![b].pc = "iterating",
          ![b].delivered = IF ok THEN @ \cup {broadcasts[b].ws} ELSE @,
          ![b].disconnected = IF ok THEN @ ELSE @ \cup {broadcasts[b].ws}]
    /\ UNCHANGED transcription_websockets
    /\ UNCHANGED <<poolVars, sessVars, dropped, bridgeVars, teardownVars, mixVars>>

BroadcastNext ==
    \/ \E o \in Observers : Register(o)
    \/ \E o \in Observers : Unregister(o)
    \/ \E b \in Broadcasts : BroadcastStart(b)
    \/ \E b \in Broadcasts : BroadcastNextWs(b)
    \/ \E b \in Broadcasts, ok \in BOOLEAN : BroadcastSent(b, ok)

----------------------------------------------------------------------------
\* MixingWorker.handle: src/utils/audio.py.  The model follows handle up to
\* "mixed"; both branches then pass mixed through the same ratecv and
\* lin2ulaw.

\* The bound on the samples of a chunk.
MaxChunkLen == 2

\* np.clip(mixed, -32768, 32767)
Int16Min == -32768
Int16Max == 32767

\* int16 samples: the extremes, values that saturate under a gain above one,
\* and small odd values, which a division does not leave whole.
Samples == {Int16Min, -20000, -3, -1, 0, 1, 20000, Int16Max}

\* A gain is a float; the model takes gains that are powers of two, n/d,
\* for which the float arithmetic of handle is exact.
Gain(n, d) == [num |-> n, den |-> d]
Gains == {Gain(1, 4), Gain(1, 2), Gain(1, 1), Gain(2, 1)}

Chunks == UNION {[1..n -> Samples] : n \in 0..MaxChunkLen}

\* .astype(np.int16) of a float in range: the fraction is cut off, towards
\* zero.  n / d with d > 0.
AsInt(n, d) == IF n >= 0 THEN n \div d ELSE -((-n) \div d)

\* np.clip(x, -32768, 32767); clipping to whole bounds and cutting off the
\* fraction commute.
Clip(x) == IF x < Int16Min THEN Int16Min ELSE IF x > Int16Max THEN Int16Max ELSE x

\* np.pad(pcm, (0, target_len - len(pcm)), 'constant')
Pad(pcm, target_len) ==
    [i \in 1..target_len |-> IF i <= Len(pcm) THEN pcm[i] ELSE 0]

\* chunk2 is None: mixed = pcm_a * vol_a, clipped.
MixSingle(pcm_a, vol_a) ==
    [i \in 1..Len(pcm_a) |-> Clip(AsInt(pcm_a[i] * vol_a.num, vol_a.den))]

\* A sum of the two inputs that is not divided by the sum of the gains.
MixPairUnnormalised(pcm_a, pcm_b, vol_a, vol_b) ==
    LET target_len == IF Len(pcm_a) > Len(pcm_b) THEN Len(pcm_a) ELSE Len(pcm_b)
        a == Pad(pcm_a, target_len)
        b == Pad(pcm_b, target_len)
    IN [i \in 1..target_len |->
          Clip(AsInt(a[i] * vol_a.num * vol_b.den + b[i] * vol_b.num * vol_a.den,
                     vol_a.den * vol_b.den))]

\* mixed = (pcm_a * vol_a + pcm_b * vol_b) / (vol_a + vol_b), clipped; the
\* shorter input is padded with zeros first.  As a fraction:
\* (a*na/da + b*nb/db) / (na/da + nb/db) = (a*na*db + b*nb*da) / (na*db + nb*da).
MixPair(pcm_a, pcm_b, vol_a, vol_b) ==
    LET target_len == IF Len(pcm_a) > Len(pcm_b) THEN Len(pcm_a) ELSE Len(pcm_b)
        a == Pad(pcm_a, target_len)
        b == Pad(pcm_b, target_len)
    IN [i \in 1..target_len |->
          Clip(AsInt(a[i] * vol_a.num * vol_b.den + b[i] * vol_b.num * vol_a.den,
                     vol_a.num * vol_b.den + vol_b.num * vol_a.den))]

\* The all-zero chunk of the length of pcm.
Silence(pcm) == [i \in 1..Len(pcm) |-> 0]

\* A chunk and a gain are chosen; nothing has been mixed.
MixInit ==
    /\ chunk1 \in Chunks
    /\ vol \in Gains
    /\ mixedSingle = <<>>
    /\ mixedPadded = <<>>
    /\ mixPc = "payload"

\* handle({'chunk1': A, 'vol_a': g}) and
\* handle({'chunk1': A, 'chunk2': zeros, 'vol_a': g, 'vol_b': g}).
Mix ==
    /\ mixPc = "payload"
    /\ mixedSingle' = MixSingle(chunk1, vol)
    /\ mixedPadded' = MixPair(chunk1, Silence(chunk1), vol, vol)
    /\ mixPc' = "mixed"
    /\ UNCHANGED <<chunk1, vol>>
    /\ UNCHANGED <<poolVars, sessVars, dropped, bridgeVars, teardownVars, broadcastVars>>

\* No payload has been given to the mixer: an empty chunk at the default
\* gain (payload.get('vol_a', 0.5)).
MixIdle ==
    /\ chunk1 = <<>>
    /\ vol = Gain(1, 2)
    /\ mixedSingle = <<>>
    /\ mixedPadded = <<>>
    /\ mixPc = "payload"

OtherInit ==
    /\ dropped = {}
    /\ BridgeInit
    /\ TerminateInit
    /\ BroadcastInit
    /\ MixIdle

Init == PoolInit /\ SessionInit /\ OtherInit

\* The pool alone, and the session alone.
PoolSpec == Init /\ [][PoolNext]_vars

\* The same, with the worker processes running: while some worker can take
\* a step (an item is on the input queue for a waiting worker, or a batch is
\* being handled) one of them does; handle() returns or raises.
PoolLiveSpec ==
    PoolSpec /\ WF_vars(\E w \in Workers : WorkerGet(w) \/ WorkerHandle(w))

SessionSpec == Init /\ [][SessionNext]_vars

\* The session with the audio its bridges discard.
RelaySpec == Init /\ [][RelayNext]_vars

\* The session with the return of its handlers.
TeardownSpec == Init /\ [][TeardownNext]_vars

\* One bridge from run() to its return.
BridgeSpec == Init /\ [][BridgeNext]_vars

\* The pool with submit callers that may be cancelled while they wait.
PoolCancelSpec == Init /\ [][PoolCancelNext]_vars

\* The same, with the resolver task taking a triple whenever one is on the
\* output queue (the event loop runs it; output_queue.get returns).
PoolCancelLiveSpec == PoolCancelSpec /\ WF_vars(PollOutput)

\* The broadcasts and the web clients that come and go.
BroadcastSpec == Init /\ [][BroadcastNext]_vars

\* The mixer on every chunk and gain of the bounds.
MixSpecInit ==
    /\ PoolInit
    /\ SessionInit
    /\ dropped = {}
    /\ BridgeInit
    /\ TerminateInit
    /\ BroadcastInit
    /\ MixInit

MixSpec == MixSpecInit /\ [][Mix]_vars

\* The disconnect notifications of one session.
TerminateSpec == Init /\ [][TerminateNext]_vars

\* The same, with run() taking its next step whenever it can; nothing is
\* assumed of the leg or of the translation service.
BridgeLiveSpec == BridgeSpec /\ WF_vars(GatherReturns)

----------------------------------------------------------------------------
\* Properties of the pool.

\* How often set_result / set_exception was called on the future of id.
SetCount(id) == Cardinality({n \in 1..Len(setLog) : setLog[n] = id})

TaskOf(caller, i) == [task_id |-> caller.ids[i], payload |-> caller.data[i]]

\* C1: every task id placed on the input queue has its future resolved exactly
\* once: never twice, and never zero times once the pool has been closed.
C1_ResolvedExactlyOnce ==
    \A id \in Ids :
        /\ SetCount(id) <= 1
        /\ closePc = "done" => (SetCount(id) = 1 /\ Done(fut[id]) /\ id \notin futures)

\* The part of C1 that the code keeps: no future is resolved twice, and every
\* id submitted before close() returned is resolved once close() has returned.
C1_BeforeCloseOnly ==
    \A c \in Callers : \A i \in 1..Len(callers[c].ids) :
        LET id == callers[c].ids[i]
        IN /\ SetCount(id) <= 1
           /\ (closePc = "done" /\ ~callers[c].afterClose) =>
                 (SetCount(id) = 1 /\ Done(fut[id]) /\ id \notin futures)

\* C2: a submit(payload) that returns a value returns the result field of the
\* triple the worker produced for that same payload, which is handle(payload)
\* whenever handle returned; never the result of another call's payload.
C2_SubmitReturnsOwnResult ==
    \A c \in Callers :
        (~callers[c].many /\ callers[c].pc = "returned") =>
            /\ callers[c].value = WorkerTriple(TaskOf(callers[c], 1)).result
            /\ ~HandleRaises(callers[c].data[1]) =>
                  callers[c].value = HandleResult(callers[c].data[1])

\* Two submit calls were outstanding together, the second one's result was
\* resolved first, and both have returned.
C2_Witness ==
    \E c, d \in Callers :
        /\ c # d
        /\ ~callers[c].many /\ ~callers[d].many
        /\ callers[c].pc = "returned" /\ callers[d].pc = "returned"
        /\ callers[c].data[1].kind = "ok" /\ callers[d].data[1].kind = "ok"
        /\ callers[c].ids[1] < callers[d].ids[1]
        /\ setLog = <<callers[d].ids[1], callers[c].ids[1]>>

\* C3: when no task of the list fails, submit_many returns exactly N results
\* and entry i is the result for payload i, in whatever order the triples
\* arrived; it raises only the cancellation of a close().
AllOk(data) == \A i \in 1..Len(data) : ~HandleRaises(data[i])

C3_SubmitManyOrdered ==
    \A c \in Callers :
        (callers[c].many /\ AllOk(callers[c].data)) =>
            /\ callers[c].pc = "returned" =>
                  /\ Len(callers[c].value) = Len(callers[c].data)
                  /\ \A i \in 1..Len(callers[c].data) :
                        callers[c].value[i] = HandleResult(callers[c].data[i])
            /\ callers[c].pc = "raised" => callers[c].value = CancelledError

\* A submit_many of two payloads has returned although the second payload's
\* triple was resolved before the first one's.
C3_Witness ==
    \E c \in Callers :
        /\ callers[c].many /\ AllOk(callers[c].data)
        /\ callers[c].pc = "returned"
        /\ Len(callers[c].data) = 2
        /\ setLog = <<callers[c].ids[2], callers[c].ids[1]>>

\* C4: in submit_many a failing task only fails its own slot: a call that has
\* ended without any close() has returned all N slots, and every sibling's
\* result is in its own slot.
C4_FailureIsLocalToSlot ==
    \A c \in Callers :
        (callers[c].many /\ closePc = "idle"
            /\ callers[c].pc \in {"returned", "raised"}) =>
            /\ callers[c].pc = "returned"
            /\ Len(callers[c].value) = Len(callers[c].data)
            /\ \A i \in 1..Len(callers[c].data) :
                  ~HandleRaises(callers[c].data[i]) =>
                      callers[c].value[i] = HandleResult(callers[c].data[i])

\* C5: when close() returns, every future that was pending when close() was
\* called holds a cancellation error, the table is empty and no caller is
\* still waiting for one of them.
AwaitsOneOf(caller, ids) ==
    /\ caller.pc = "awaiting"
    /\ \E i \in 1..Len(caller.ids) : caller.ids[i] \in ids

C5_CloseCancelsOutstanding ==
    [][(closePc = "awaiting" /\ closePc' = "done") =>
          /\ \A id \in outstanding :
                fut'[id] = [state |-> "exception", value |-> CancelledError]
          /\ futures' = {}
          /\ \A c \in Callers : ~AwaitsOneOf(callers'[c], outstanding)]_vars

\* close() has returned after being called with two tasks outstanding, one of
\* them already answered on the output queue, and their caller was woken by
\* the cancellation.
C5_Witness ==
    /\ closePc = "done"
    /\ Cardinality(outstanding) = 2
    /\ output_queue # <<>>
    /\ \E c \in Callers :
          /\ callers[c].pc = "raised"
          /\ callers[c].value = CancelledError
          /\ \E i \in 1..Len(callers[c].ids) : callers[c].ids[i] \in outstanding

\* C6: a submit or submit_many made after close() has returned registers no
\* pending future and does not leave its caller waiting.
C6_SubmitAfterCloseFailsFast ==
    \A c \in Callers :
        callers[c].afterClose =>
            /\ callers[c].pc # "awaiting"
            /\ \A i \in 1..Len(callers[c].ids) : callers[c].ids[i] \notin futures

----------------------------------------------------------------------------
\* Properties of the call session.

ReachedBarrier(h) == handlers[h].pc \in {"barrier_wait", "passed", "failed", "running"}

PastBarrier(h) == handlers[h].pc \in {"passed", "failed", "running"}

\* C7: no handler of the session is past the barrier before a second one has
\* reached it, and the barrier is crossed exactly once per session.
C7_RendezvousOnce ==
    /\ \A h \in Handlers :
          PastBarrier(h) => Cardinality({g \in Handlers : ReachedBarrier(g)}) >= Parties
    /\ crossings <= 1

\* The part of C7 that the code keeps: nobody is past the barrier before two
\* handlers have reached it, and every crossing lets exactly two through.
C7_TwoPerCrossing ==
    /\ \A h \in Handlers :
          PastBarrier(h) => Cardinality({g \in Handlers : ReachedBarrier(g)}) >= Parties
    /\ Cardinality({h \in Handlers : PastBarrier(h)}) <= Parties * crossings

\* C8: an attach to a session whose two legs have rendezvoused is rejected: it
\* stores nothing in the session, does not wait at the barrier and starts no
\* bridge.
C8_ThirdAttachRejected ==
    \A h \in late :
        /\ handlers[h].pc \notin {"connect_wait", "barrier_wait", "passed", "running"}
        /\ source_websocket # h
        /\ target_websocket # h

\* C9: once source_websocket and target_websocket are both set, no step
\* changes either of them.
C9_LegsNeverReassigned ==
    [][(source_websocket # NoWs /\ target_websocket # NoWs) =>
          (source_websocket' = source_websocket /\ target_websocket' = target_websocket)]_vars

\* C27: whenever a handler is past the connect event and the barrier, both
\* source_websocket and target_websocket of the session are set, and neither
\* of the two assertions after the barrier fails.
C27_BothLegsSetPastBarrier ==
    \A h \in Handlers :
        /\ handlers[h].pc # "failed"
        /\ PastBarrier(h) => (source_websocket # NoWs /\ target_websocket # NoWs)

\* C10: every translated-audio message a bridge has forwarded went to a
\* websocket attached in the opposite role and carries the stream sid of a
\* stream of the opposite role: never the bridge's own transport, never the
\* sid of its own leg.
C10_ForwardCrosses ==
    \A m \in sent :
        /\ m.ws \in Handlers
        /\ handlers[m.ws].role = Opposite(m.role)
        /\ \E w \in Handlers :
              /\ handlers[w].pc # "new"
              /\ handlers[w].role = Opposite(m.role)
              /\ m.streamSid = StreamSid(w)

\* Both bridges of a rendezvoused session have forwarded audio.
C10_Witness ==
    /\ \E m \in sent : m.role = "client"
    /\ \E m \in sent : m.role = "operator"

----------------------------------------------------------------------------
\* Properties of the session's bridges until teardown.

\* C11: translated audio that reaches a bridge before the opposite leg's
\* stream sid is captured is not dropped: no bridge discards audio for want
\* of the sid (it is kept until the sid is set, or the session fails).
C11_EarlyAudioNotDropped ==
    \A h \in dropped : handlers[h].pc = "failed"

\* The handlers that still hold the session: attached and not yet ended.
Attached(h) ==
    handlers[h].pc \in {"connect_wait", "barrier_wait", "passed", "running"}

LegFinished(role) ==
    \E h \in Handlers : handlers[h].pc = "finished" /\ handlers[h].role = role

\* C16: once the handlers of both legs have ended and none is attached, the
\* session is no longer in session_store.
C16_SessionRemovedAfterTeardown ==
    (LegFinished("client") /\ LegFinished("operator")
        /\ \A h \in Handlers : ~Attached(h))
    => SessionId \notin session_store

----------------------------------------------------------------------------
\* Properties of the inbound direction.

\* The bytes of the stream the translation socket has taken.
ForwardedBytes == [k \in DOMAIN forwarded |-> forwarded[k].src]

Overlap(a, b) == a.first < b.first + b.len /\ b.first < a.first + a.len

RECURSIVE TotalLen(_)
TotalLen(runs) == IF runs = <<>> THEN 0 ELSE Head(runs).len + TotalLen(Tail(runs))

\* Every byte received is in exactly one forwarded message.
EachByteOnce(runs) ==
    /\ \A j, k \in DOMAIN runs : j # k => ~Overlap(runs[j], runs[k])
    /\ \A k \in DOMAIN runs : runs[k].first >= 1
                               /\ runs[k].first + runs[k].len - 1 <= received
    /\ TotalLen(runs) = received

\* C12: when the inbound stream has ended (disconnect, error, or the bridge
\* closed), every audio byte the 'media' frames carried has been converted
\* and forwarded to the translation socket exactly once.
C12_EveryByteForwardedOnce ==
    twilioPc = "ended" => EachByteOnce(ForwardedBytes)

RECURSIVE Contiguous(_, _)
Contiguous(runs, first) ==
    \/ runs = <<>>
    \/ /\ Head(runs).first = first
       /\ Contiguous(Tail(runs), first + Head(runs).len)

\* C21: the inputs of the forwarded conversions, one after the other, are
\* always a prefix of the bytes the 'media' frames have carried: chunks are
\* forwarded in arrival order and none is skipped or overtaken.
C21_ForwardedIsPrefix ==
    /\ Contiguous(ForwardedBytes, 1)
    /\ TotalLen(ForwardedBytes) <= received

\* C22: whatever the sizes of the 'media' frames, every conversion made while
\* the stream is open takes exactly buffer_size bytes, between two frames the
\* buffer holds fewer bytes than one chunk, and the remainder converted at the
\* end of the stream is shorter than one chunk.
C22_DrainedInFixedChunks ==
    /\ twilioPc = "reading"
       => /\ buffer.len < buffer_size
          /\ \A k \in DOMAIN converted : converted[k].len = buffer_size
    /\ twilioPc = "ended"
       => /\ \A k \in DOMAIN converted : converted[k].len <= buffer_size
          /\ \A k \in 1..(Len(converted) - 1) : converted[k].len = buffer_size

\* One of the two directional tasks is done.
EitherTaskDone == runPc = "gather" /\ (palabraTask # "running" \/ twilioPc = "ended")

\* C14: when either directional task of a running bridge ends, run() goes on
\* to shut the bridge down and returns, whatever the other direction does.
C14_EitherEndShutsDown ==
    EitherTaskDone ~> runPc \in {"returned", "raised"}

\* C25: once close() has run on a running bridge, both directional tasks are
\* done, nothing more is forwarded to the translation socket, and a later
\* close() changes nothing.
C25_CloseEndsBothTasksOnce ==
    /\ [](ws = "closed" => (palabraTask # "running" /\ twilioPc = "ended"))
    /\ [][ws = "closed" => /\ forwarded' = forwarded
                           /\ <<running, ws, palabraTask>>' = <<running, ws, palabraTask>>]_vars

----------------------------------------------------------------------------
\* Properties of teardown.

\* C15: however many disconnect notifications arrive, from either leg and in
\* any order, the termination command is issued at most once, to the leg
\* opposite the first notification, and the flag is true from then on.
C15_TerminateAtMostOnce ==
    /\ Len(terminations) <= 1
    /\ notified # <<>> => /\ completed
                          /\ terminations = <<Opposite(notified[1])>>

\* The same notification twice, and one from the other leg.
C15_Witness ==
    /\ Len(notified) >= 3
    /\ notified[1] = notified[2]
    /\ \E k \in DOMAIN notified : notified[k] # notified[1]
    /\ Len(terminations) = 1

----------------------------------------------------------------------------
\* Properties of the pool: a transform that raises.

\* C17: when handle(payload) raises, the future of that task fails with an
\* error once it is resolved, and the future of a task whose handle returned
\* is failed by nothing but close().
C17_RaiseFailsItsFutureOnly ==
    \A c \in Callers : \A i \in 1..Len(callers[c].ids) :
        LET f == fut[callers[c].ids[i]]
        IN /\ (HandleRaises(callers[c].data[i]) /\ Done(f)) => f.state = "exception"
           /\ (~HandleRaises(callers[c].data[i]) /\ f.state = "exception")
                  => f.value = CancelledError

----------------------------------------------------------------------------
\* Properties of the pool: a cancelled caller.

\* The task of id has not come back to the resolver yet: it is still on the
\* input queue, in a worker's batch, or its triple is on the output queue.
InFlight(id) ==
    \/ \E k \in DOMAIN input_queue :
          \E j \in DOMAIN input_queue[k].tasks : input_queue[k].tasks[j].task_id = id
    \/ \E w \in Workers : \E j \in DOMAIN procs[w].batch : procs[w].batch[j].task_id = id
    \/ \E k \in DOMAIN output_queue : output_queue[k].task_id = id

HeadAnswersPending(id) ==
    /\ output_queue # <<>>
    /\ Head(output_queue).task_id = id
    /\ id \in futures
    /\ ~Done(fut[id])

\* The resolver takes the triple at the head of the output queue.
TakesHead ==
    /\ output_task = "running"
    /\ output_queue # <<>>
    /\ output_queue' = Tail(output_queue)

\* C23: an item whose handling raises (its future is done already) does not
\* end poll_output: the resolver stops only when close() cancels it, every
\* triple it takes resolves the pending future of its own id and of no other,
\* and the triples on the output queue are all taken unless close() comes
\* first.
C23_ResolverSurvivesBadItem ==
    /\ [][/\ TakesHead => output_task' = "running"
          /\ output_task' # output_task
                => closePc = "idle" /\ closePc' = "awaiting" /\ output_task' = "cancelled"
          /\ \A id \in Ids :
                (TakesHead /\ HeadAnswersPending(id))
                    => /\ fut'[id] = Resolve(fut[id], Head(output_queue))
                       /\ Done(fut'[id])
                       /\ \A other \in Ids \ {id} : fut'[other] = fut[other]]_vars
    /\ (output_queue # <<>>) ~> (output_queue = <<>> \/ output_task = "cancelled")

\* The resolver took the triple of a cancelled caller's task, whose future was
\* done, and afterwards the triple of another caller's task, whose future it
\* failed with the worker's error.
C23_Witness ==
    \E c, d \in Callers :
        /\ callers[c].pc = "cancelled"
        /\ callers[d].pc = "raised"
        /\ callers[d].value = RuntimeError(Str("transform failed"))
        /\ setLog = <<callers[c].ids[1], callers[d].ids[1]>>
        /\ output_task = "running"

----------------------------------------------------------------------------
\* Properties of the pool: the workers at close().

\* The sentinels still on the input queue.
SentinelsQueued == Cardinality({k \in DOMAIN input_queue : input_queue[k] = Sentinel})

Exited == {w \in Workers : procs[w].pc = "exited"}

\* The triples on the output queue that answer task id.
TriplesOf(id) == {k \in DOMAIN output_queue : output_queue[k].task_id = id}

\* Task id is still on the input queue or in the batch of a worker.
Unanswered(id) ==
    \/ \E k \in DOMAIN input_queue :
          \E j \in DOMAIN input_queue[k].tasks : input_queue[k].tasks[j].task_id = id
    \/ \E w \in Workers : \E j \in DOMAIN procs[w].batch : procs[w].batch[j].task_id = id

\* C24: once close() has put its sentinels, every worker exits; a worker
\* exits on a sentinel only and takes nothing after it, so each takes exactly
\* one; a worker that exits has answered every task it took; and when all
\* have exited every task that was queued before the sentinels and not yet
\* resolved has exactly one triple on the output queue.
C24_SentinelsEndEveryWorker ==
    /\ [](/\ closePc = "idle" => (Exited = {} /\ SentinelsQueued = 0)
          /\ closePc # "idle" => SentinelsQueued + Cardinality(Exited) = NumProcs
          /\ \A w \in Exited : procs[w].batch = <<>>
          /\ \A id \in Ids : Cardinality(TriplesOf(id)) <= 1
          /\ Exited = Workers =>
                \A id \in outstanding :
                    ~Unanswered(id) /\ Cardinality(TriplesOf(id)) = 1)
    /\ [][\A w \in Workers :
            /\ procs[w].pc = "exited" => procs'[w] = procs[w]
            /\ (procs[w].pc # "exited" /\ procs'[w].pc = "exited")
                  => /\ procs[w].pc = "get"
                     /\ Head(input_queue) = Sentinel
                     /\ input_queue' = Tail(input_queue)]_vars
    /\ (closePc # "idle") ~> (Exited = Workers)

\* close() was called while a batch of two tasks was waiting; all workers
\* have exited, no sentinel is left, and both tasks have their triple.
C24_Witness ==
    /\ Exited = Workers
    /\ SentinelsQueued = 0
    /\ Cardinality(outstanding) = MaxTasks
    /\ \E c \in Callers : callers[c].many /\ Len(callers[c].ids) = MaxTasks
    /\ Len(output_queue) = MaxTasks

----------------------------------------------------------------------------
\* Properties of the transcript broadcaster.

\* C19: no broadcast is broken off by a change of the shared set, and a
\* broadcast that has ended has sent the message to every observer that was
\* registered when it started and still is.
C19_BroadcastReachesAll ==
    \A b \in DOMAIN broadcasts :
        /\ broadcasts[b].pc # "raised"
        /\ broadcasts[b].pc = "done" =>
              \A o \in broadcasts[b].atStart \cap transcription_websockets :
                  o \in broadcasts[b].delivered

----------------------------------------------------------------------------
\* Properties of the mixer.

\* A scaled by n/d and saturated to int16.
Scaled(A, n, d) ==
    [i \in 1..Len(A) |->
        LET x == IF A[i] * n >= 0 THEN (A[i] * n) \div d ELSE -((-(A[i] * n)) \div d)
        IN IF x > Int16Max THEN Int16Max ELSE IF x < Int16Min THEN Int16Min ELSE x]

====
